---- MODULE Spec2Model ----
(***************************************************************************)
(* Model of plot_results.py: a script that loads benchmark trials from a   *)
(* CSV file, aggregates them per input size, derives theoretical curves,   *)
(* growth ratios and normalised times, and prints a report.                *)
(*                                                                         *)
(* The script is one straight-line program; the model follows it statement *)
(* group by statement group with a program counter.  An uncaught Python    *)
(* exception ends the run in pc = "aborted" with the exception recorded in *)
(* error.  Calls into the charting library only consume the series; they   *)
(* are taken to return normally and are represented by the "saved" lines   *)
(* the script prints after them.                                           *)
(*                                                                         *)
(* Floating-point values (numpy float64) are modelled as fixed-point       *)
(* numbers with Scale units per 1.0, extended with inf, -inf and nan,      *)
(* which numpy produces (with a warning, not an exception) for log2(0)     *)
(* and for division by zero.                                               *)
(***************************************************************************)
EXTENDS Integers, Sequences, FiniteSets, TLC

\* ---------------------------------------------------------------- bounds
MaxRows  == 3      \* data rows in the input file
MaxSize  == 3      \* InputSize values 0..MaxSize
MaxVariant == 0    \* measurement variants 0..MaxVariant of a trial
Scale    == 1000   \* fixed-point units per 1.0
FracBits == 8      \* fractional bits computed by Log2

\* ------------------------------------------------------ program constants
CompFactorPct == 144   \* the factor 1.44, in hundredths
CVThreshold   == 15    \* "Low CV% (<15%)"

\* ------------------------------------------------------------ float model
Fin(v) == [k |-> "fin", v |-> v]
Inf    == [k |-> "inf", v |-> 0]
NInf   == [k |-> "ninf", v |-> 0]
NaN    == [k |-> "nan", v |-> 0]

IsFinite(a) == a.k = "fin"
Sign(a) == IF a.k = "inf" THEN 1
           ELSE IF a.k = "ninf" THEN -1
           ELSE IF a.v > 0 THEN 1 ELSE IF a.v < 0 THEN -1 ELSE 0
Signed(s) == IF s > 0 THEN Inf ELSE NInf

\* Python int -> float64
FromInt(n) == Fin(n * Scale)

FNeg(a) == IF a.k = "inf" THEN NInf
           ELSE IF a.k = "ninf" THEN Inf
           ELSE IF a.k = "nan" THEN NaN
           ELSE Fin(0 - a.v)

FAdd(a, b) ==
    IF a.k = "nan" \/ b.k = "nan" THEN NaN
    ELSE IF IsFinite(a) /\ IsFinite(b) THEN Fin(a.v + b.v)
    ELSE IF IsFinite(a) THEN b
    ELSE IF IsFinite(b) THEN a
    ELSE IF a.k = b.k THEN a ELSE NaN

FSub(a, b) == FAdd(a, FNeg(b))

FMul(a, b) ==
    IF a.k = "nan" \/ b.k = "nan" THEN NaN
    ELSE IF IsFinite(a) /\ IsFinite(b) THEN Fin((a.v * b.v) \div Scale)
    ELSE IF Sign(a) = 0 \/ Sign(b) = 0 THEN NaN
    ELSE Signed(Sign(a) * Sign(b))

\* float64 / float64: x/0 is +-inf, 0/0 is nan, no exception
FDiv(a, b) ==
    IF a.k = "nan" \/ b.k = "nan" THEN NaN
    ELSE IF ~IsFinite(a) /\ ~IsFinite(b) THEN NaN
    ELSE IF ~IsFinite(a) THEN Signed(Sign(a) * (IF Sign(b) < 0 THEN -1 ELSE 1))
    ELSE IF ~IsFinite(b) THEN Fin(0)
    ELSE IF b.v = 0 THEN (IF a.v = 0 THEN NaN ELSE Signed(a.v))
    ELSE Fin((a.v * Scale) \div b.v)

RECURSIVE Pow2(_)
Pow2(k) == IF k = 0 THEN 1 ELSE 2 * Pow2(k - 1)

\* integer square root, one result bit at a time from bit b down
RECURSIVE ISqrtBits(_, _, _)
ISqrtBits(n, r, b) ==
    IF b < 0 THEN r
    ELSE IF (r + Pow2(b)) * (r + Pow2(b)) <= n
         THEN ISqrtBits(n, r + Pow2(b), b - 1)
         ELSE ISqrtBits(n, r, b - 1)

FSqrt(a) ==
    IF a.k = "nan" \/ a.k = "ninf" THEN NaN
    ELSE IF a.k = "inf" THEN Inf
    ELSE IF a.v < 0 THEN NaN
    ELSE Fin(ISqrtBits(a.v * Scale, 0, 14))

RECURSIVE FloorLog2(_)
FloorLog2(n) == IF n < 2 THEN 0 ELSE 1 + FloorLog2(n \div 2)

\* fractional bits of log2 of x/Pow2(FracBits+4), x in [1, 2), by squaring
RECURSIVE FracLog2(_, _)
FracLog2(x, bits) ==
    IF bits = 0 THEN 0
    ELSE LET one == Pow2(FracBits + 4)
             sq  == (x * x) \div one
         IN  IF sq >= 2 * one
             THEN Pow2(bits - 1) + FracLog2(sq \div 2, bits - 1)
             ELSE FracLog2(sq, bits - 1)

\* np.log2 of a Python int: -inf at 0, nan below 0, no exception
Log2(n) ==
    IF n = 0 THEN NInf
    ELSE IF n < 0 THEN NaN
    ELSE LET k    == FloorLog2(n)
             one  == Pow2(FracBits + 4)
             x    == (n * one) \div Pow2(k)
             frac == FracLog2(x, FracBits)
         IN  Fin(k * Scale + (frac * Scale) \div Pow2(FracBits))

\* int(x) of a float64: ValueError on nan, OverflowError on +-inf
IntRaises(a) == IF a.k = "nan" THEN "ValueError"
                ELSE IF a.k = "fin" THEN "none"
                ELSE "OverflowError"

RECURSIVE FSum(_)
FSum(s) == IF s = <<>> THEN Fin(0) ELSE FAdd(Head(s), FSum(Tail(s)))

\* np.mean of a list: nan for the empty list
Mean(s) == IF s = <<>> THEN NaN ELSE FDiv(FSum(s), FromInt(Len(s)))

\* np.std of a list: population definition, sqrt(mean((x - mean)^2))
Std(s) ==
    LET m == Mean(s)
        d == [i \in 1..Len(s) |-> FMul(FSub(s[i], m), FSub(s[i], m))]
    IN  FSqrt(Mean(d))

\* ------------------------------------------------------------ input file
\* A CSV cell as csv.DictReader hands it over: the text of an integer, the
\* text of a decimal "v.5", non-numeric text, or None for a field the row
\* is too short to contain.
IntCell(n) == [k |-> "int", v |-> n]
RealCell(n) == [k |-> "real", v |-> n]
TextCell == [k |-> "text", v |-> 0]
NoneCell == [k |-> "none", v |-> 0]

Fields == <<"InputSize", "TimeMillis", "Comparisons", "Swaps", "HeapifyOps", "MemoryKB">>

\* the trial of size n in measurement variant v
Row(n, v) ==
    [InputSize |-> IntCell(n), TimeMillis |-> IntCell(v + 1),
     Comparisons |-> IntCell(2 * v), Swaps |-> IntCell(v),
     HeapifyOps |-> IntCell(v + 1), MemoryKB |-> IntCell(1)]

GoodRows == {Row(n, v) : n \in 0..MaxSize, v \in 0..MaxVariant}

OddCells == {RealCell(1), TextCell, NoneCell}

\* a row of its own measurement variant with one cell replaced
OddRows == {[Row(2, MaxVariant + 1) EXCEPT ![Fields[f]] = c] : f \in 1..Len(Fields), c \in OddCells}

Rows == GoodRows \cup OddRows

\* int(cell): the exception it raises, "none" if it returns
IntParseRaises(c) == IF c.k = "int" THEN "none"
                     ELSE IF c.k = "none" THEN "TypeError"
                     ELSE "ValueError"

\* float(cell): the exception it raises, "none" if it returns
FloatParseRaises(c) == IF c.k \in {"int", "real"} THEN "none"
                       ELSE IF c.k = "none" THEN "TypeError"
                       ELSE "ValueError"

ParseFloat(c) == IF c.k = "int" THEN FromInt(c.v)
                 ELSE Fin(c.v * Scale + Scale \div 2)

FieldRaises(row, f) == IF Fields[f] = "TimeMillis"
                       THEN FloatParseRaises(row[Fields[f]])
                       ELSE IntParseRaises(row[Fields[f]])

\* index of the first field of the row whose conversion raises, 0 if none
RECURSIVE FirstBadFrom(_, _)
FirstBadFrom(row, f) ==
    IF f > Len(Fields) THEN 0
    ELSE IF FieldRaises(row, f) # "none" THEN f
    ELSE FirstBadFrom(row, f + 1)

FirstBad(row) == FirstBadFrom(row, 1)

\* --------------------------------------------------------------- helpers
Range(s) == {s[i] : i \in 1..Len(s)}

SetMin(S) == CHOOSE x \in S : \A y \in S : x <= y

RECURSIVE SortedSeq(_)
SortedSeq(S) == IF S = {} THEN <<>>
                ELSE <<SetMin(S)>> \o SortedSeq(S \ {SetMin(S)})

\* the sizes as read: neither sorted nor deduplicated
UniqueSizesAsRead(szs) == szs

\* sorted(set(sizes))
UniqueSizes(szs) == SortedSeq(Range(szs))

\* [i for i, s in enumerate(sizes) if s == size], 1-based
RECURSIVE IndicesFrom(_, _, _)
IndicesFrom(szs, size, i) ==
    IF i > Len(szs) THEN <<>>
    ELSE IF szs[i] = size THEN <<i>> \o IndicesFrom(szs, size, i + 1)
    ELSE IndicesFrom(szs, size, i + 1)

\* every index up to the last trial of the size: "<=" scan instead of "=="
IndicesUpToLast(szs, size) ==
    LET last == IF \E j \in 1..Len(szs) : szs[j] = size
                THEN CHOOSE j \in 1..Len(szs) :
                        szs[j] = size /\ \A m \in (j + 1)..Len(szs) : szs[m] # size
                ELSE 0
    IN  [j \in 1..last |-> j]

Indices(szs, size) == IndicesFrom(szs, size, 1)

\* [xs[i] for i in indices]
Pick(xs, idx) == [j \in 1..Len(idx) |-> xs[idx[j]]]

NoError == [type |-> "none", line |-> 0]
Raise(t, l) == [type |-> t, line |-> l]
Line(kind, size) == [kind |-> kind, size |-> size]

\* ----------------------------------------------------------------- state
VARIABLES pc, i, sizes, times, comparisons, swaps, heapify_ops, memory,
          unique_sizes, avg_times, avg_comparisons, avg_swaps, avg_heapify,
          avg_memory, std_times, indices, theoretical, theoretical_swaps,
          n_log_n, normalized_time, growth_ratios, size_ratios,
          ops_per_element_comp, ops_per_element_swap, theoretical_per_elem,
          summary, out, error

raw == <<sizes, times, comparisons, swaps, heapify_ops, memory>>
aggs == <<unique_sizes, avg_times, avg_comparisons, avg_swaps, avg_heapify,
          avg_memory, std_times, indices>>
series == <<theoretical, theoretical_swaps, n_log_n, normalized_time,
            ops_per_element_comp, ops_per_element_swap, theoretical_per_elem>>
growth == <<growth_ratios, size_ratios>>
vars == <<pc, i, raw, aggs, series, growth, summary, out, error>>

NoSummary == [mean |-> NaN, std |-> NaN, cv |-> NaN, set |-> FALSE]

Init ==
    /\ pc = "load"
    /\ i = 0
    /\ sizes = <<>> /\ times = <<>> /\ comparisons = <<>>
    /\ swaps = <<>> /\ heapify_ops = <<>> /\ memory = <<>>
    /\ unique_sizes = <<>> /\ avg_times = <<>> /\ avg_comparisons = <<>>
    /\ avg_swaps = <<>> /\ avg_heapify = <<>> /\ avg_memory = <<>>
    /\ std_times = <<>> /\ indices = <<>>
    /\ theoretical = <<>> /\ theoretical_swaps = <<>> /\ n_log_n = <<>>
    /\ normalized_time = <<>> /\ growth_ratios = <<>> /\ size_ratios = <<>>
    /\ ops_per_element_comp = <<>> /\ ops_per_element_swap = <<>>
    /\ theoretical_per_elem = <<>>
    /\ summary = NoSummary
    /\ out = <<Line("reading", 0)>>
    /\ error = NoError

Abort(t, l) == /\ pc' = "aborted"
               /\ error' = Raise(t, l)

\* ------------------------------------------------------- load (l. 21-29)
AppendRow(row, upto) ==
    /\ sizes' = IF upto >= 1 THEN Append(sizes, row.InputSize.v) ELSE sizes
    /\ times' = IF upto >= 2 THEN Append(times, ParseFloat(row.TimeMillis)) ELSE times
    /\ comparisons' = IF upto >= 3 THEN Append(comparisons, row.Comparisons.v) ELSE comparisons
    /\ swaps' = IF upto >= 4 THEN Append(swaps, row.Swaps.v) ELSE swaps
    /\ heapify_ops' = IF upto >= 5 THEN Append(heapify_ops, row.HeapifyOps.v) ELSE heapify_ops
    /\ memory' = IF upto >= 6 THEN Append(memory, row.MemoryKB.v) ELSE memory

\* one iteration of "for row in reader" whose six conversions all return
ReadRow ==
    /\ pc = "load"
    /\ Len(sizes) < MaxRows
    /\ \E row \in Rows :
          /\ FirstBad(row) = 0
          /\ AppendRow(row, Len(Fields))
    /\ UNCHANGED <<pc, i, aggs, series, growth, summary, out, error>>

\* an iteration in which a conversion raises: the fields before it have
\* been appended, the exception is not caught and ends the run
ReadRowRaise ==
    /\ pc = "load"
    /\ Len(sizes) < MaxRows
    /\ \E row \in Rows :
          LET f == FirstBad(row) IN
          /\ f # 0
          /\ AppendRow(row, f - 1)
          /\ Abort(FieldRaises(row, f), 23 + f)
    /\ UNCHANGED <<i, aggs, series, growth, summary, out>>

\* the reader is exhausted; line 32 computes the unique sizes
EndOfFile ==
    /\ pc = "load"
    /\ unique_sizes' = UniqueSizes(sizes)
    /\ pc' = "aggregate"
    /\ i' = 0
    /\ UNCHANGED <<raw, avg_times, avg_comparisons, avg_swaps, avg_heapify,
                   avg_memory, std_times, indices, series, growth, summary,
                   out, error>>

FromInts(xs) == [j \in 1..Len(xs) |-> FromInt(xs[j])]

\* one iteration of "for size in unique_sizes" (l. 40-47)
AggregateSize ==
    /\ pc = "aggregate"
    /\ i < Len(unique_sizes)
    /\ LET size == unique_sizes[i + 1]
           ind  == Indices(sizes, size)
       IN  /\ indices' = Append(indices, ind)
           /\ avg_times' = Append(avg_times, Mean(Pick(times, ind)))
           /\ avg_comparisons' = Append(avg_comparisons, Mean(FromInts(Pick(comparisons, ind))))
           /\ avg_swaps' = Append(avg_swaps, Mean(FromInts(Pick(swaps, ind))))
           /\ avg_heapify' = Append(avg_heapify, Mean(FromInts(Pick(heapify_ops, ind))))
           /\ avg_memory' = Append(avg_memory, Mean(FromInts(Pick(memory, ind))))
           /\ std_times' = Append(std_times, Std(Pick(times, ind)))
    /\ i' = i + 1
    /\ UNCHANGED <<pc, raw, unique_sizes, series, growth, summary, out, error>>

\* l. 49-50
PrintProcessed ==
    /\ pc = "aggregate"
    /\ i = Len(unique_sizes)
    /\ out' = out \o <<Line("processed", Len(sizes)), Line("input_sizes", Len(unique_sizes))>>
    /\ pc' = "plot1"
    /\ UNCHANGED <<i, raw, aggs, series, growth, summary, error>>

Saved(n) == Line("saved", n)

\* l. 55-78: unique_sizes[max_idx] with max_idx = -1 raises IndexError on
\* an empty list
Plot1 ==
    /\ pc = "plot1"
    /\ IF unique_sizes = <<>>
       THEN /\ Abort("IndexError", 69)
            /\ UNCHANGED out
       ELSE /\ pc' = "plot2"
            /\ out' = Append(out, Saved(1))
            /\ UNCHANGED error
    /\ UNCHANGED <<i, raw, aggs, series, growth, summary>>

CompFactor == Fin((CompFactorPct * Scale) \div 100)

\* n * np.log2(n)
NLogN(n) == FMul(FromInt(n), Log2(n))

\* n * np.log2(n) * 1.44 (l. 91, l. 275)
TheoreticalComparisons(n) == FMul(NLogN(n), CompFactor)

\* n - 1 (l. 111)
TheoreticalSwaps(n) == n - 1

\* l. 80-99
Plot2 ==
    /\ pc = "plot2"
    /\ theoretical' = [j \in 1..Len(unique_sizes) |-> TheoreticalComparisons(unique_sizes[j])]
    /\ out' = Append(out, Saved(2))
    /\ pc' = "plot3"
    /\ UNCHANGED <<i, raw, aggs, theoretical_swaps, n_log_n, normalized_time,
                   ops_per_element_comp, ops_per_element_swap,
                   theoretical_per_elem, growth, summary, error>>

\* l. 101-119
Plot3 ==
    /\ pc = "plot3"
    /\ theoretical_swaps' = [j \in 1..Len(unique_sizes) |-> TheoreticalSwaps(unique_sizes[j])]
    /\ out' = Append(out, Saved(3))
    /\ pc' = "plot4"
    /\ UNCHANGED <<i, raw, aggs, theoretical, n_log_n, normalized_time,
                   ops_per_element_comp, ops_per_element_swap,
                   theoretical_per_elem, growth, summary, error>>

\* [t / nl for t, nl in zip(avg_times, n_log_n)] (l. 123)
NormalizedTime(ts, nls) == [j \in 1..Len(ts) |-> FDiv(ts[j], nls[j])]

\* l. 121-146
Plot4 ==
    /\ pc = "plot4"
    /\ n_log_n' = [j \in 1..Len(unique_sizes) |-> NLogN(unique_sizes[j])]
    /\ normalized_time' = NormalizedTime(avg_times, n_log_n')
    /\ out' = Append(out, Saved(4))
    /\ pc' = "plot5"
    /\ UNCHANGED <<i, raw, aggs, theoretical, theoretical_swaps,
                   ops_per_element_comp, ops_per_element_swap,
                   theoretical_per_elem, growth, summary, error>>

\* l. 148-189
Plot5 ==
    /\ pc = "plot5"
    /\ out' = Append(out, Saved(5))
    /\ pc' = "plot6"
    /\ UNCHANGED <<i, raw, aggs, series, growth, summary, error>>

\* l. 192-194: "if len(unique_sizes) > 1"
Plot6 ==
    /\ pc = "plot6"
    /\ IF Len(unique_sizes) > 1
       THEN pc' = "growth" /\ i' = 1
       ELSE pc' = "plot7" /\ i' = i
    /\ UNCHANGED <<raw, aggs, series, growth, summary, out, error>>

\* int / int of Python: the exception it raises, "none" if it returns
IntDivRaises(a, b) == IF b = 0 THEN "ZeroDivisionError" ELSE "none"

\* (n * log2 n) / (m * log2 m), float64 arithmetic (l. 199-200)
TheoreticalRatio(n, m) == FDiv(NLogN(n), NLogN(m))

\* one iteration of "for i in range(1, len(unique_sizes))" (l. 196-202);
\* i is the 1-based position of the earlier size of the pair
GrowthStep ==
    /\ pc = "growth"
    /\ i < Len(unique_sizes)
    /\ LET time_ratio == FDiv(avg_times[i + 1], avg_times[i])
           raises == IntDivRaises(unique_sizes[i + 1], unique_sizes[i])
           theoretical_ratio == TheoreticalRatio(unique_sizes[i + 1], unique_sizes[i])
       IN  IF raises # "none"
           THEN /\ Abort(raises, 198)
                /\ UNCHANGED <<i, growth>>
           ELSE /\ growth_ratios' = Append(growth_ratios, time_ratio)
                /\ size_ratios' = Append(size_ratios, theoretical_ratio)
                /\ i' = i + 1
                /\ UNCHANGED <<pc, error>>
    /\ UNCHANGED <<raw, aggs, series, summary, out>>

\* l. 204-223
GrowthPlot ==
    /\ pc = "growth"
    /\ i = Len(unique_sizes)
    /\ out' = Append(out, Saved(6))
    /\ pc' = "plot7"
    /\ UNCHANGED <<i, raw, aggs, series, growth, summary, error>>

\* [c / n for c, n in zip(avg, unique_sizes)]: float64 / int, no exception
OpsPerElement(avg, ns) == [j \in 1..Len(ns) |-> FDiv(avg[j], FromInt(ns[j]))]

\* l. 225-249
Plot7 ==
    /\ pc = "plot7"
    /\ ops_per_element_comp' = OpsPerElement(avg_comparisons, unique_sizes)
    /\ ops_per_element_swap' = OpsPerElement(avg_swaps, unique_sizes)
    /\ theoretical_per_elem' = [j \in 1..Len(unique_sizes) |->
                                   FMul(Log2(unique_sizes[j]), CompFactor)]
    /\ out' = Append(out, Saved(7))
    /\ pc' = "perf_header"
    /\ UNCHANGED <<i, raw, aggs, theoretical, theoretical_swaps, n_log_n,
                   normalized_time, growth, summary, error>>

\* l. 252-256
PrintPerfHeader ==
    /\ pc = "perf_header"
    /\ out' = Append(out, Line("perf_header", 0))
    /\ pc' = "perf_rows"
    /\ i' = 0
    /\ UNCHANGED <<raw, aggs, series, growth, summary, error>>

\* the first of the given int() conversions that raises, "none" if none
RECURSIVE FirstRaise(_)
FirstRaise(xs) == IF xs = <<>> THEN "none"
                  ELSE IF IntRaises(Head(xs)) # "none" THEN IntRaises(Head(xs))
                  ELSE FirstRaise(Tail(xs))

\* one iteration of the performance table loop (l. 257-259)
PrintPerfRow ==
    /\ pc = "perf_rows"
    /\ i < Len(unique_sizes)
    /\ LET raises == FirstRaise(<<avg_comparisons[i + 1], avg_swaps[i + 1], avg_heapify[i + 1]>>)
       IN  IF raises # "none"
           THEN /\ Abort(raises, 258)
                /\ UNCHANGED <<i, out>>
           ELSE /\ out' = Append(out, Line("perf_row", unique_sizes[i + 1]))
                /\ i' = i + 1
                /\ UNCHANGED <<pc, error>>
    /\ UNCHANGED <<raw, aggs, series, growth, summary>>

\* (np.std(x) / np.mean(x)) * 100 (l. 266)
CoefficientOfVariation(xs) == FMul(FDiv(Std(xs), Mean(xs)), FromInt(100))

\* l. 261-273: the three figures, the confirmation line (printed whatever
\* the figures are) and the header of the comparison table
PrintComplexity ==
    /\ pc = "perf_rows"
    /\ i = Len(unique_sizes)
    /\ summary' = [mean |-> Mean(normalized_time), std |-> Std(normalized_time),
                   cv |-> CoefficientOfVariation(normalized_time), set |-> TRUE]
    /\ out' = out \o <<Line("cv_header", 0), Line("cv_mean", 0), Line("cv_std", 0),
                       Line("cv_value", 0), Line("confirms", CVThreshold),
                       Line("cmp_header", 0)>>
    /\ pc' = "cmp_rows"
    /\ i' = 0
    /\ UNCHANGED <<raw, aggs, series, growth, error>>

\* one iteration of the comparison table loop (l. 274-277)
PrintCmpRow ==
    /\ pc = "cmp_rows"
    /\ i < Len(unique_sizes)
    /\ LET size == unique_sizes[i + 1]
           theoretical_l == TheoreticalComparisons(size)
           ratio == FDiv(avg_comparisons[i + 1], theoretical_l)
           raises == FirstRaise(<<avg_comparisons[i + 1], theoretical_l>>)
       IN  IF raises # "none"
           THEN /\ Abort(raises, 277)
                /\ UNCHANGED <<i, out>>
           ELSE /\ out' = Append(out, Line("cmp_row", size))
                /\ i' = i + 1
                /\ UNCHANGED <<pc, error>>
    /\ UNCHANGED <<raw, aggs, series, growth, summary>>

\* l. 279-281
Finish ==
    /\ pc = "cmp_rows"
    /\ i = Len(unique_sizes)
    /\ out' = Append(out, Line("all_done", 7))
    /\ pc' = "done"
    /\ UNCHANGED <<i, raw, aggs, series, growth, summary, error>>

Next ==
    \/ ReadRow \/ ReadRowRaise \/ EndOfFile
    \/ AggregateSize \/ PrintProcessed
    \/ Plot1 \/ Plot2 \/ Plot3 \/ Plot4 \/ Plot5
    \/ Plot6 \/ GrowthStep \/ GrowthPlot \/ Plot7
    \/ PrintPerfHeader \/ PrintPerfRow \/ PrintComplexity
    \/ PrintCmpRow \/ Finish

Spec == Init /\ [][Next]_vars

\* ---------------------------------------------------------------- claims
LoadFailed == pc = "aborted" /\ error.line < 32
Aggregated == pc \notin {"load", "aggregate"} /\ ~LoadFailed
Ended == pc \in {"done", "aborted"}
Printed(kind) == \E j \in 1..Len(out) : out[j].kind = kind
PrintedRow(kind, size) == \E j \in 1..Len(out) : out[j] = Line(kind, size)

TrialsOf(size) == {j \in 1..Len(sizes) : sizes[j] = size}

RECURSIVE TotalOver(_, _)
TotalOver(S, xs) ==
    IF S = {} THEN 0
    ELSE LET j == CHOOSE m \in S : TRUE
         IN  xs[j] + TotalOver(S \ {j}, xs)

\* a is the fixed-point quotient of total by count
IsMeanOf(a, total, count) ==
    /\ IsFinite(a)
    /\ a.v * count <= total
    /\ total < (a.v + 1) * count

AggregateSeries == <<avg_times, avg_comparisons, avg_swaps, avg_heapify,
                     avg_memory, std_times>>

\* C1: once the aggregation loop has run over a non-empty trial sequence,
\* unique_sizes holds every distinct input size exactly once in strictly
\* ascending order, each aggregate series has one entry per unique size,
\* and entry k of a series is the aggregate of the trials of size
\* unique_sizes[k].
C1_OneRecordPerSizeAscending ==
    (Aggregated /\ sizes # <<>>) =>
        /\ Range(unique_sizes) = Range(sizes)
        /\ \A a, b \in 1..Len(unique_sizes) : a < b => unique_sizes[a] < unique_sizes[b]
        /\ \A m \in 1..Len(AggregateSeries) :
              Len(AggregateSeries[m]) = Len(unique_sizes)
        /\ \A k \in 1..Len(unique_sizes) :
              LET S == TrialsOf(unique_sizes[k]) IN
              /\ IsMeanOf(avg_times[k], TotalOver(S, [j \in 1..Len(times) |-> times[j].v]),
                          Cardinality(S))
              /\ IsMeanOf(avg_comparisons[k], TotalOver(S, comparisons) * Scale,
                          Cardinality(S))
              /\ IsMeanOf(avg_swaps[k], TotalOver(S, swaps) * Scale, Cardinality(S))

\* a finished run over three trials of two sizes read in descending order
C1_Witness ==
    /\ pc = "done"
    /\ Len(sizes) = 3
    /\ Len(unique_sizes) = 2
    /\ sizes[1] > sizes[2]
    /\ avg_times[1] # avg_times[2]

\* C2: the index list built for each unique size is non-empty, has no
\* repeated index and holds only trials of that size; the lists of
\* different sizes are disjoint, and once the loop has run they cover the
\* whole trial sequence.
C2_GroupsPartitionTrials ==
    (pc \notin {"load"} /\ ~LoadFailed) =>
        /\ \A k \in 1..Len(indices) :
              /\ indices[k] # <<>>
              /\ \A a, b \in 1..Len(indices[k]) : a < b => indices[k][a] < indices[k][b]
              /\ \A a \in 1..Len(indices[k]) :
                    /\ indices[k][a] \in 1..Len(sizes)
                    /\ sizes[indices[k][a]] = unique_sizes[k]
        /\ \A k, m \in 1..Len(indices) :
              k # m => Range(indices[k]) \cap Range(indices[m]) = {}
        /\ Aggregated =>
              /\ Len(indices) = Len(unique_sizes)
              /\ UNION {Range(indices[k]) : k \in 1..Len(indices)} = 1..Len(sizes)

\* a finished run where the trials of one size are not adjacent in the input
C2_Witness ==
    /\ pc = "done"
    /\ Len(indices) = 2
    /\ \E k \in 1..2 : indices[k] = <<1, 3>>

\* C3: normalized_time has an entry only for unique sizes n > 1, and the
\* complexity summary is taken over finite values only.
C3_NormalizedTimeExcluded ==
    /\ \A k \in 1..Len(normalized_time) :
          unique_sizes[k] > 1 /\ IsFinite(normalized_time[k])
    /\ \A k \in 1..Len(n_log_n) : IsFinite(n_log_n[k]) /\ n_log_n[k].v > 0

\* C4: a run whose trials include a size <= 1 does not abort, and every
\* size n > 1 has its row in both tables and the summary over the sizes
\* n > 1 is defined (finite) when there is such a size.
C4_DomainErrorIntercepted ==
    (Ended /\ Aggregated /\ sizes # <<>> /\ \E n \in Range(sizes) : n <= 1) =>
        /\ pc = "done"
        /\ \A n \in Range(sizes) :
              n > 1 => /\ PrintedRow("perf_row", n)
                       /\ PrintedRow("cmp_row", n)
                       /\ IsFinite(summary.mean)
                       /\ IsFinite(summary.std)

\* C5: a run that ends in an error has printed none of the numeric
\* summaries before the error.
C5_NoPartialSummary ==
    pc = "aborted" =>
        \A j \in 1..Len(out) :
            out[j].kind \notin {"processed", "perf_row", "cv_mean", "cv_std",
                                "cv_value", "cmp_row"}

\* C6: a row with a missing or non-numeric field ends the load with a
\* MalformedRow condition; the row is not skipped and nothing is
\* aggregated.
C6_MalformedRow ==
    LoadFailed =>
        /\ error.type = "MalformedRow"
        /\ unique_sizes = <<>>
        /\ indices = <<>>

\* C7: no growth transition is returned whose earlier size is <= 1, and a
\* failure of the growth loop is a DegenerateSizeError.
C7_DegenerateSizeError ==
    /\ \A k \in 1..Len(size_ratios) : unique_sizes[k] > 1
    /\ (pc = "aborted" /\ error.line \in 196..202) =>
          error.type = "DegenerateSizeError"

\* C8: the theoretical swap count of size n is n - 1 for n >= 1 and 0 for
\* n = 0.
C8_TheoreticalSwaps ==
    \A k \in 1..Len(theoretical_swaps) :
        theoretical_swaps[k] = IF unique_sizes[k] >= 1 THEN unique_sizes[k] - 1 ELSE 0

\* C9: an input without data rows gives empty unique sizes, empty aggregate
\* series and no growth transition, and the run does not raise.
C9_EmptyInputNoError ==
    (Aggregated /\ sizes = <<>>) =>
        /\ unique_sizes = <<>>
        /\ \A m \in 1..Len(AggregateSeries) : AggregateSeries[m] = <<>>
        /\ growth_ratios = <<>> /\ size_ratios = <<>>
        /\ pc # "aborted"

\* C10: for a run whose sizes are all above 1 (so that the coefficient of
\* variation is a number), the confirmation line is printed only when the
\* coefficient of variation is below the threshold.
C10_ConfirmOnlyBelowThreshold ==
    (Printed("confirms") /\ \A n \in Range(sizes) : n > 1) =>
        /\ IsFinite(summary.cv)
        /\ summary.cv.v < CVThreshold * Scale

====
